---- MODULE Spec2Model ----
(***************************************************************************)
(* Model of the finance agent's control loop: the LangGraph workflow of    *)
(* graph.py, the policy router of router.py, the retrieval node of         *)
(* retriever.py, the tool planner / executor of tool_planner.py and        *)
(* tool_executor.py and the synthesizer of synthesizer.py.                 *)
(*                                                                         *)
(* A state of the model is the AgentState of one turn (state.py) plus the  *)
(* position of the workflow (the node that runs next) and a few trace      *)
(* variables that record what the last node did.  Language-model, index    *)
(* and tool collaborators are inputs drawn from small sets.                *)
(***************************************************************************)
EXTENDS Integers, Sequences, FiniteSets, TLC

VARIABLES
    node,                 \* the node the workflow runs next ("END" when done)
    last_node,            \* the node that ran last (the stream's step name)
    query,                \* AgentState.query
    user_file_info,       \* AgentState.user_file_info
    chat_history,         \* AgentState.chat_history (reducer operator.add)
    retrieved_chunks,     \* AgentState.retrieved_chunks
    search_namespaces,    \* AgentState.search_namespaces
    retrieval_filters,    \* AgentState.retrieval_filters
    tool_calls,           \* AgentState.tool_calls
    tool_outputs,         \* AgentState.tool_outputs (reducer operator.add)
    final_answer,         \* AgentState.final_answer
    clarification_question, \* AgentState.clarification_question
    next_step,            \* AgentState.next_step
    loop_step,            \* AgentState.loop_step
    retrieval_count,      \* AgentState.retrieval_count
    ins_for_synthesizer,  \* AgentState.ins_for_synthesizer
    tool_error_count,     \* AgentState.tool_error_count
    response,             \* router: the classifier's answer of the last pass
    router_passes,        \* trace: number of router executions in the turn
    retrieve_runs,        \* trace: number of retrieve executions in the turn
    supersteps,           \* engine: number of node executions in the turn
    retrieve_pc,          \* retrieve: "idle", or "searching" once tasks are submitted
    pending,              \* retrieve: namespace tasks submitted, not completed
    all_candidates,       \* retrieve: candidates collected from completed tasks
    returned_chunks,      \* trace: per id, the latest chunk any round produced
    raised,               \* retrieve: the calls of the last round that raised
    hung,                 \* retrieve: tasks whose index query never responds
    _pc,                  \* retriever._pc, the process-wide index client
    _index,               \* retriever._index, the process-wide index handle
    ensure_at,            \* per turn, its position in _ensure_clients
    dispatch_log          \* tool_executor: per planned call, what the last run did

vars == << node, last_node, query, user_file_info, chat_history,
           retrieved_chunks, search_namespaces, retrieval_filters,
           tool_calls, tool_outputs, final_answer, clarification_question,
           next_step, loop_step, retrieval_count, ins_for_synthesizer,
           tool_error_count, response,
           router_passes, retrieve_runs, supersteps, retrieve_pc, pending,
           all_candidates, returned_chunks, raised, hung,
           _pc, _index, ensure_at,
           dispatch_log >>

\* A key that the turn's state does not hold (state.get returns its default).
Unset == -1

\* A field whose value is None.
None == "None"

(***************************************************************************)
(* router.py                                                               *)
(***************************************************************************)
max_retrievals == 3
max_loops == 6

\* The limit on node executions the application passes to the engine.
recursion_limit == 20

\* The number of turns the process serves at the same time.
MaxTurns == 3

Turns == 1..MaxTurns

LIMITS == [max_retrievals |-> max_retrievals, max_loops |-> max_loops]

\* Variant of the reducer: the patch replaces the channel.
Add_Overwrite(channel, patch) == patch

\* operator.add, the reducer of the chat_history and tool_outputs channels.
Add(channel, patch) == channel \o patch

\* state.get(key, default)
Get(value, default) == IF value = Unset THEN default ELSE value

ALL_NAMESPACES == <<"filings", "transcripts", "textbook", "glossary">>

\* RouteChoice.search_filters: None, an empty mapping, or a metadata filter.
FilterChoices == {None, "{}", "ticker=FTNT"}

\* Python truthiness of a filter mapping.
Truthy(filters) == filters \notin {None, "{}"}

\* RouteChoice.search_namespaces as the classifier may fill it in.
NsChoices == { <<>>, <<"filings", "transcripts">>, <<"glossary", "glossary">> }

Explanations == {"Hello! How can I help?", "This is out of scope."}

NoResponse == [kind |-> "none", next_step |-> None, explanation |-> None,
               search_filters |-> None, search_namespaces |-> <<>>]

\* structured_llm.invoke raised, timed out or returned unparseable output.
ErrorResponse == [kind |-> "error", next_step |-> None, explanation |-> None,
                  search_filters |-> None, search_namespaces |-> <<>>]

\* The RouteChoice values the classifier may return; fields a decision does
\* not use carry their defaults.
RouteChoice ==
    [kind : {"ok"}, next_step : {"retrieve"}, explanation : {"reason"},
     search_filters : FilterChoices, search_namespaces : NsChoices]
    \cup
    [kind : {"ok"}, next_step : {"plan_tools", "synthesize"},
     explanation : {"reason"}, search_filters : {None},
     search_namespaces : {ALL_NAMESPACES}]
    \cup
    [kind : {"ok"}, next_step : {"conversational"}, explanation : Explanations,
     search_filters : {None}, search_namespaces : {ALL_NAMESPACES}]

Responses == RouteChoice \cup {ErrorResponse}

OUT_OF_SCOPE_MSG == "I apologize, but I am a specialized financial agent."

\* "out of scope" in final_msg.lower()
MentionsOutOfScope(explanation) == explanation = "This is out of scope."

FinalMsg(explanation) ==
    IF MentionsOutOfScope(explanation) THEN OUT_OF_SCOPE_MSG ELSE explanation

\* Variants of the decrement: none at all, and two at a time.
NewStepCount_NoDecrement(current_step) == current_step

NewStepCount_ByTwo(current_step) == current_step - 2

NewStepCount(current_step) == current_step - 1

\* Variants of the breaker's test: one pass late, and two passes late.
CircuitBreaker_OnePassLate(new_step_count) == new_step_count < 0

CircuitBreaker_Negative(new_step_count) == new_step_count < -1

\* Variant of the breaker's test: the breaker is switched off.
CircuitBreaker_Disabled(new_step_count) == FALSE

\* 1. Global Circuit Breaker (Max Loops)
CircuitBreaker(new_step_count) == new_step_count <= 0

\* Variant of the soft limit: the ceiling itself still lets a search through.
SoftLimit_AboveCeiling(decision, count) ==
    IF decision = "retrieve" /\ count > LIMITS.max_retrievals
    THEN "synthesize" ELSE decision

\* Variant of the soft limit: at the ceiling every decision is overridden.
SoftLimit_BlocksAll(decision, count) ==
    IF count >= LIMITS.max_retrievals THEN "synthesize" ELSE decision

\* 3. THE SOFT LIMIT (Block Search Only)
SoftLimit(decision, count) ==
    IF decision = "retrieve" /\ count >= LIMITS.max_retrievals
    THEN "synthesize" ELSE decision

\* Variant of the counter update: a retrieve decision counts twice.
CountRetrieval_ByTwo(count) == count + 2

\* The retrieval_count of the patch of a retrieve decision.
CountRetrieval(count) == count + 1

\* Variant of the except clause: the failed pass costs no budget.
FailOpen_KeepsBudget(new_step_count) ==
    [next_step |-> "synthesize", loop_step |-> new_step_count + 1]

\* The patch of the except clause around the classification call.
FailOpen(new_step_count) ==
    [next_step |-> "synthesize", loop_step |-> new_step_count]

\* Variant of the edges: "end" is routed through the synthesizer.
RouterEdge_EndViaSynthesizer(step) ==
    CASE step = "retrieve"   -> "retrieve"
      [] step = "plan_tools" -> "tool_planner"
      [] step = "synthesize" -> "synthesizer"
      [] step = "ask_user"   -> "ask_user"
      [] step = "end"        -> "synthesizer"

\* Variant of the edges: "plan_tools" leads straight to the executor.
RouterEdge_PlanSkipsPlanner(step) ==
    CASE step = "retrieve"   -> "retrieve"
      [] step = "plan_tools" -> "tool_executor"
      [] step = "synthesize" -> "synthesizer"
      [] step = "ask_user"   -> "ask_user"
      [] step = "end"        -> "END"

\* Variant of the edges: "synthesize" ends the turn without the synthesizer.
RouterEdge_SynthesizeEnds(step) ==
    CASE step = "retrieve"   -> "retrieve"
      [] step = "plan_tools" -> "tool_planner"
      [] step = "synthesize" -> "END"
      [] step = "ask_user"   -> "ask_user"
      [] step = "end"        -> "END"

\* graph.py: the conditional edges leaving the router.
RouterEdge(step) ==
    CASE step = "retrieve"   -> "retrieve"
      [] step = "plan_tools" -> "tool_planner"
      [] step = "synthesize" -> "synthesizer"
      [] step = "ask_user"   -> "ask_user"
      [] step = "end"        -> "END"

\* What a router pass leaves alone in every branch.
RouterFrame ==
    UNCHANGED << clarification_question, query, user_file_info,
                 chat_history, retrieved_chunks,
                 tool_calls, tool_outputs, ins_for_synthesizer,
                 tool_error_count, retrieve_runs, retrieve_pc, pending,
                 all_candidates, returned_chunks >>

router ==
    /\ UNCHANGED << hung, _pc, _index, ensure_at >>
    /\ supersteps' = supersteps + 1
    /\ node = "router"
    /\ LET current_step == Get(loop_step, LIMITS.max_loops)
           new_step_count == NewStepCount(current_step)
       IN  IF CircuitBreaker(new_step_count)
           THEN /\ next_step' = "synthesize"
                /\ loop_step' = 0
                /\ response' = NoResponse
                /\ UNCHANGED << final_answer, retrieval_count,
                                retrieval_filters, search_namespaces >>
           ELSE \E resp \in Responses :
                /\ response' = resp
                /\ IF resp.kind = "error"
                   THEN /\ next_step' = FailOpen(new_step_count).next_step
                        /\ loop_step' = FailOpen(new_step_count).loop_step
                        /\ UNCHANGED << final_answer, retrieval_count,
                                        retrieval_filters, search_namespaces >>
                   ELSE LET count == Get(retrieval_count, 0)
                            decision == SoftLimit(resp.next_step, count)
                        IN  IF decision = "conversational"
                            THEN /\ final_answer' = FinalMsg(resp.explanation)
                                 /\ next_step' = "end"
                                 /\ UNCHANGED << loop_step, retrieval_count,
                                                 retrieval_filters,
                                                 search_namespaces >>
                            ELSE /\ next_step' = decision
                                 /\ loop_step' = new_step_count
                                 /\ UNCHANGED final_answer
                                 /\ IF decision = "retrieve"
                                    THEN /\ retrieval_count' = CountRetrieval(count)
                                         /\ retrieval_filters' =
                                              IF Truthy(resp.search_filters)
                                              THEN resp.search_filters
                                              ELSE retrieval_filters
                                         /\ search_namespaces' =
                                              resp.search_namespaces
                                    ELSE UNCHANGED << retrieval_count,
                                                      retrieval_filters,
                                                      search_namespaces >>
    /\ node' = RouterEdge(next_step')
    /\ last_node' = "router"
    /\ router_passes' = router_passes + 1
    /\ dispatch_log' = << >>
    /\ raised' = {}
    /\ RouterFrame

(***************************************************************************)
(* retriever.py                                                            *)
(***************************************************************************)
k_per_ns == 15
top_k == 8

Match(id, text) == [id |-> id, score |-> 1, text |-> text]

\* The number of vectors the index holds in the user namespace.
MaxUserMatches == 10

\* The texts of the vectors of the user namespace, in turn.
UserTexts == << "t6", "t1", "t2", "t2b", "t4", "" >>

\* The vector index collaborator: the matches _index.query returns for a
\* namespace under a metadata filter (a match with text "" has no text).
IndexQuery(namespace, filters) ==
    CASE namespace = "filings" ->
            IF Truthy(filters) THEN << Match(1, "t1") >>
            ELSE << Match(1, "t1"), Match(2, "t2") >>
      [] namespace = "transcripts" -> << Match(2, "t2b"), Match(3, "") >>
      [] namespace = "textbook" ->
            IF Truthy(filters) THEN << >> ELSE << Match(4, "t4") >>
      [] namespace = "glossary" -> << >>
      [] namespace = "user" ->
            [i \in 1..MaxUserMatches |->
                Match(10 + i, UserTexts[((i - 1) % Len(UserTexts)) + 1])]

\* The reranker collaborator: _reranker.predict on one (query, text) pair.
RerankScore(text) ==
    CASE text = "t1" -> 5
      [] text = "t2" -> 7
      [] text = "t2b" -> 3
      [] text = "t4" -> 5
      [] text = "t6" -> 9
      [] OTHER -> 0

Take(s, n) == SubSeq(s, 1, IF Len(s) < n THEN Len(s) ELSE n)

RECURSIVE KeepWithText(_, _)
KeepWithText(matches, namespace) ==
    IF matches = << >> THEN << >>
    ELSE LET m == Head(matches)
             rest == KeepWithText(Tail(matches), namespace)
         IN  IF m.text # ""
             THEN << [id |-> m.id, score |-> m.score, text |-> m.text,
                      metadata |-> m.text, origin_namespace |-> namespace] >>
                  \o rest
             ELSE rest

\* Variant of the namespace search without the except clause's empty list:
\* a failing query still hands back what the index holds for the namespace.
SearchSingleNamespace_KeepsOnFailure(namespace, filters, query_ok) ==
    KeepWithText(Take(IndexQuery(namespace, filters), k_per_ns), namespace)

\* _search_single_namespace: the candidates of one namespace; a failing query
\* is caught and yields no candidate.
SearchSingleNamespace(namespace, filters, query_ok) ==
    IF query_ok
    THEN KeepWithText(Take(IndexQuery(namespace, filters), k_per_ns), namespace)
    ELSE << >>

\* d[c.id] = c on an insertion-ordered dict held as the list of its values.
PutById(d, c) ==
    IF \E i \in 1..Len(d) : d[i].id = c.id
    THEN [i \in 1..Len(d) |-> IF d[i].id = c.id THEN c ELSE d[i]]
    ELSE Append(d, c)

RECURSIVE PutAll(_, _)
PutAll(d, items) ==
    IF items = << >> THEN d ELSE PutAll(PutById(d, Head(items)), Tail(items))

\* {c.id: c for c in items}.values()
UniqueById(items) == PutAll(<< >>, items)

Rescore(candidates) ==
    [i \in 1..Len(candidates) |->
        [candidates[i] EXCEPT !.score = RerankScore(candidates[i].text)]]

\* Position of c in a list sorted by descending score, behind its equals.
InsertByScore(sorted, c) ==
    LET ahead == Cardinality({i \in 1..Len(sorted) : sorted[i].score >= c.score})
    IN  SubSeq(sorted, 1, ahead) \o << c >> \o SubSeq(sorted, ahead + 1, Len(sorted))

RECURSIVE InsertAll(_, _)
InsertAll(sorted, items) ==
    IF items = << >> THEN sorted
    ELSE InsertAll(InsertByScore(sorted, Head(items)), Tail(items))

\* candidates.sort(key=score, reverse=True): stable, descending.
SortByScore(candidates) == InsertAll(<< >>, candidates)

\* Variant of the reranking: the list is cut to k before it is sorted.
RerankCandidates_CutBeforeSort(candidates, k) ==
    IF candidates = << >> THEN << >>
    ELSE SortByScore(Take(Rescore(UniqueById(candidates)), k))

\* _rerank_candidates
RerankCandidates(candidates, k) ==
    IF candidates = << >> THEN << >>
    ELSE Take(SortByScore(Rescore(UniqueById(candidates))), k)

ToChunk(c) == [id |-> c.id, text |-> c.text, score |-> c.score,
               source |-> c.origin_namespace, metadata |-> c.metadata]

NewChunks(final_candidates) ==
    [i \in 1..Len(final_candidates) |-> ToChunk(final_candidates[i])]

\* unique_chunks = {c["id"]: c for c in prev_chunks}, then each new chunk is
\* stored under its id.
MergeChunks(prev_chunks, new_chunks) ==
    PutAll(UniqueById(prev_chunks), new_chunks)

Range(s) == {s[i] : i \in 1..Len(s)}

\* Variant of the target namespaces without the default.
TargetNamespaces_NoDefault(namespaces) == Range(namespaces)

\* The namespaces a round searches: all of them when the state names none,
\* duplicates removed.
TargetNamespaces(namespaces) ==
    IF namespaces = << >> THEN Range(ALL_NAMESPACES) ELSE Range(namespaces)

\* The patch a failed or empty round returns.
EmptyRound == << >>

RetrieveFrame ==
    UNCHANGED << clarification_question, query, user_file_info,
                 chat_history, search_namespaces,
                 retrieval_filters, tool_calls, tool_outputs, final_answer,
                 next_step, loop_step, retrieval_count, ins_for_synthesizer,
                 tool_error_count, router_passes >>

\* retrieve, up to the submission of the namespace tasks: _ensure_clients and
\* encode_query may raise, which ends the round in the except branch.
retrieve_submit ==
    /\ UNCHANGED << hung, _pc, _index, ensure_at >>
    /\ supersteps' = supersteps + 1
    /\ node = "retrieve"
    /\ retrieve_pc = "idle"
    /\ retrieve_runs' = retrieve_runs + 1
    /\ response' = NoResponse
    /\ \E clients_ok \in BOOLEAN :
         IF clients_ok
         THEN /\ retrieve_pc' = "searching"
              /\ pending' = TargetNamespaces(search_namespaces)
              /\ all_candidates' = << >>
              /\ raised' = {}
              /\ UNCHANGED << node, last_node, retrieved_chunks >>
         ELSE /\ retrieved_chunks' = EmptyRound
              /\ node' = "router"
              /\ last_node' = "retrieve"
              /\ raised' = {"clients"}
              /\ UNCHANGED << retrieve_pc, pending, all_candidates >>
    /\ dispatch_log' = << >>
    /\ UNCHANGED returned_chunks
    /\ RetrieveFrame

\* One namespace task completes and as_completed hands its result over.
search_done ==
    /\ UNCHANGED << hung, _pc, _index, ensure_at >>
    /\ UNCHANGED supersteps
    /\ node = "retrieve"
    /\ retrieve_pc = "searching"
    /\ \E ns \in pending \ hung, query_ok \in BOOLEAN :
         /\ pending' = pending \ {ns}
         /\ all_candidates' = all_candidates \o
                SearchSingleNamespace(ns, retrieval_filters, query_ok)
         /\ raised' = IF query_ok THEN raised ELSE raised \cup {ns}
    /\ UNCHANGED << node, last_node, retrieved_chunks, response, retrieve_pc,
                    retrieve_runs, returned_chunks, dispatch_log >>
    /\ RetrieveFrame

\* Variant of the join: the with-block is left while one task is running.
AllTasksDone_OneRunning(tasks) == Cardinality(tasks) <= 1

\* Every task is done: the executor's with-block is left.
AllTasksDone(tasks) == tasks = {}

\* The trace of the latest chunk produced per id.
Latest(seen, chunks) ==
    {c \in seen : \A i \in 1..Len(chunks) : chunks[i].id # c.id} \cup Range(chunks)

\* retrieve, after the join: rerank and merge, or the empty patch when there
\* is no candidate or the reranker raises.
retrieve_join ==
    /\ UNCHANGED << hung, _pc, _index, ensure_at >>
    /\ UNCHANGED supersteps
    /\ node = "retrieve"
    /\ retrieve_pc = "searching"
    /\ AllTasksDone(pending)
    /\ IF all_candidates = << >>
       THEN /\ retrieved_chunks' = EmptyRound
            /\ UNCHANGED << returned_chunks, raised >>
       ELSE \E rerank_ok \in BOOLEAN :
            IF rerank_ok
            THEN LET new_chunks == NewChunks(RerankCandidates(all_candidates, top_k))
                 IN  /\ retrieved_chunks' = MergeChunks(retrieved_chunks, new_chunks)
                     /\ returned_chunks' = Latest(returned_chunks,
                            NewChunks(RerankCandidates(all_candidates,
                                                       Len(all_candidates))))
                     /\ UNCHANGED raised
            ELSE /\ retrieved_chunks' = EmptyRound
                 /\ raised' = raised \cup {"reranker"}
                 /\ UNCHANGED returned_chunks
    /\ retrieve_pc' = "idle"
    /\ all_candidates' = << >>
    /\ node' = "router"
    /\ last_node' = "retrieve"
    /\ UNCHANGED << pending, response, retrieve_runs, dispatch_log >>
    /\ RetrieveFrame

(***************************************************************************)
(* tool_executor.py                                                        *)
(***************************************************************************)
\* Untyped JSON-like values: None, a string, a list, or a mapping, each held
\* as the list of its (key, value) items; a list element has the key "".
NoneV == [t |-> "none", val |-> "", items |-> << >>]
Str(s) == [t |-> "str", val |-> s, items |-> << >>]
List(elements) ==
    [t |-> "list", val |-> "",
     items |-> [i \in 1..Len(elements) |-> << "", elements[i] >>]]
Dict(items) == [t |-> "dict", val |-> "", items |-> items]
EmptyDict == Dict(<< >>)

\* Python truthiness: bool(v)
TruthyV(v) ==
    CASE v.t = "none" -> FALSE
      [] v.t = "str" -> v.val # ""
      [] OTHER -> v.items # << >>

\* len(v)
LenV(v) == IF v.t = "str" THEN (IF v.val = "" THEN 0 ELSE 2) ELSE Len(v.items)

IsDict(v) == v.t = "dict"

HasKey(d, k) == IsDict(d) /\ \E i \in 1..Len(d.items) : d.items[i][1] = k

ValueOf(d, k) == d.items[CHOOSE i \in 1..Len(d.items) : d.items[i][1] = k][2]

\* a or b
Or(a, b) == IF TruthyV(a) THEN a ELSE b

\* The planned call as the executor reads it: tool_name or name, args or
\* arguments; an absent key reads "" or None.
Call(tool_name, name, args, arguments) ==
    [tool_name |-> tool_name, name |-> name, args |-> args,
     arguments |-> arguments]

TOOL_MAP == {"calculator", "growth_rate_calculator", "ratio_calculator",
             "valuation_tool", "pandas_tool", "table_qa_tool",
             "data_fetching_tool"}

WrapperKeys == {"tool_input", "input", "arguments"}

IsNumber(v) == v.t = "str" /\ v.val = "num"

IsNumberList(v, min_length) ==
    /\ v.t = "list"
    /\ Len(v.items) >= min_length
    /\ \A i \in 1..Len(v.items) : IsNumber(v.items[i][2])

\* CalculatorInput
CalculatorInput(a) ==
    /\ HasKey(a, "operation") /\ HasKey(a, "numbers")
    /\ ValueOf(a, "operation") \in {Str("add"), Str("subtract"),
                                    Str("multiply"), Str("divide")}
    /\ IsNumberList(ValueOf(a, "numbers"), 1)
    /\ ValueOf(a, "operation") \in {Str("subtract"), Str("divide")}
         => Len(ValueOf(a, "numbers").items) >= 2

\* NPVInputs
NPVInputs(a) ==
    /\ HasKey(a, "operation") /\ ValueOf(a, "operation") = Str("npv")
    /\ HasKey(a, "cash_flows") /\ IsNumberList(ValueOf(a, "cash_flows"), 1)
    /\ HasKey(a, "discount_rate") /\ IsNumber(ValueOf(a, "discount_rate"))

\* IRRInputs
IRRInputs(a) ==
    /\ HasKey(a, "operation") /\ ValueOf(a, "operation") = Str("irr")
    /\ HasKey(a, "cash_flows") /\ IsNumberList(ValueOf(a, "cash_flows"), 2)

\* input_schema.model_validate(cleaned_args) succeeds.  The contracts of the
\* calculator and of the valuation tool's npv and irr operations are spelled
\* out; the other contracts are reduced to their required keys.
ModelValidate(tool_name, a) ==
    /\ IsDict(a)
    /\ CASE tool_name = "calculator" -> CalculatorInput(a)
         [] tool_name = "valuation_tool" -> NPVInputs(a) \/ IRRInputs(a)
         [] tool_name = "growth_rate_calculator" ->
                HasKey(a, "start_value") /\ HasKey(a, "end_value")
         [] tool_name = "ratio_calculator" -> HasKey(a, "ratio_name")
         [] tool_name = "pandas_tool" -> HasKey(a, "operations")
         [] tool_name = "table_qa_tool" ->
                HasKey(a, "query") /\ HasKey(a, "csv_path")
         [] tool_name = "data_fetching_tool" ->
                HasKey(a, "operation") /\ HasKey(a, "ticker")
         [] OTHER -> FALSE

\* How the execution function of a tool ends: it returns a result mapping,
\* returns a mapping with an "error" key, or raises.
ToolOutcomes == {"result", "error", "raises"}

\* Variant of the wrapper-key fix: wrapper keys are unwrapped twice.
CleanedArgs_UnwrapTwice(tool_args) ==
    LET Inner(a) ==
            IF LenV(a) = 1
            THEN LET key == a.items[1][1]
                     val == a.items[1][2]
                 IN  IF key \in WrapperKeys /\ IsDict(val) THEN val ELSE a
            ELSE a
    IN  Inner(Inner(tool_args))

\* Variant of the wrapper-key fix: an empty inner mapping is not unwrapped.
CleanedArgs_KeepEmptyInner(tool_args) ==
    IF LenV(tool_args) = 1
    THEN LET key == tool_args.items[1][1]
             val == tool_args.items[1][2]
         IN  IF key \in WrapperKeys /\ IsDict(val) /\ TruthyV(val)
             THEN val ELSE tool_args
    ELSE tool_args

\* The wrapper-key fix: one level is unwrapped.
CleanedArgs(tool_args) ==
    IF LenV(tool_args) = 1
    THEN LET key == tool_args.items[1][1]
             val == tool_args.items[1][2]
         IN  IF key \in WrapperKeys /\ IsDict(val) THEN val ELSE tool_args
    ELSE tool_args

\* len(tool_args) == 1 on a value without keys(): AttributeError.
UnwrapRaises(tool_args) == LenV(tool_args) = 1 /\ ~IsDict(tool_args)

Output(tool_name, status, error, input, result) ==
    [tool_name |-> tool_name, status |-> status, error |-> error,
     input |-> input, result |-> result]

\* The tool name the executor reads from a planned call.
ToolName(tool_call) ==
    IF tool_call.tool_name # "" THEN tool_call.tool_name ELSE tool_call.name

\* The raw arguments the executor reads from a planned call.
ToolArgs(tool_call) == Or(Or(tool_call.args, tool_call.arguments), EmptyDict)

\* A call without a tool name is skipped.
MissingName(tool_name) == tool_name = ""

\* Variant of the loop body: one except clause for every exception, so a
\* failed validation is recorded as a runtime error.
Dispatch_SingleExcept(tool_call, outcome) ==
    LET tool_name == ToolName(tool_call)
        tool_args == ToolArgs(tool_call)
        cleaned_args == CleanedArgs(tool_args)
        Done(outs, v, e) ==
            [outputs |-> outs, validated |-> v, executed |-> e,
             args |-> IF v THEN cleaned_args ELSE NoneV,
             outcome |-> IF e THEN outcome ELSE None]
    IN  IF MissingName(tool_name) THEN Done(<< >>, FALSE, FALSE)
        ELSE IF tool_name \notin TOOL_MAP
        THEN Done(<< Output(tool_name, None, "Unknown tool", NoneV, None) >>,
                  FALSE, FALSE)
        ELSE IF UnwrapRaises(tool_args)
        THEN Done(<< Output(tool_name, "runtime_error", "Runtime Error",
                            tool_args, None) >>, FALSE, FALSE)
        ELSE IF ~TruthyV(cleaned_args)
        THEN Done(<< Output(tool_name, "invalid_tool_call",
                            "Planner produced empty arguments", NoneV, None) >>,
                  FALSE, FALSE)
        ELSE IF ~ModelValidate(tool_name, cleaned_args)
        THEN Done(<< Output(tool_name, "runtime_error", "Runtime Error",
                            tool_args, None) >>, TRUE, FALSE)
        ELSE IF outcome = "raises"
        THEN Done(<< Output(tool_name, "runtime_error", "Runtime Error",
                            tool_args, None) >>, TRUE, TRUE)
        ELSE Done(<< Output(tool_name, "success", None, cleaned_args, outcome) >>,
                  TRUE, TRUE)

\* Variant of the loop body: the registry is consulted only when validation
\* and execution are about to start, after the empty-arguments test.
Dispatch_RegistryLast(tool_call, outcome) ==
    LET tool_name == ToolName(tool_call)
        tool_args == ToolArgs(tool_call)
        cleaned_args == CleanedArgs(tool_args)
        Done(outs, v, e) ==
            [outputs |-> outs, validated |-> v, executed |-> e,
             args |-> IF v THEN cleaned_args ELSE NoneV,
             outcome |-> IF e THEN outcome ELSE None]
    IN  IF MissingName(tool_name) THEN Done(<< >>, FALSE, FALSE)
        ELSE IF UnwrapRaises(tool_args)
        THEN Done(<< Output(tool_name, "runtime_error", "Runtime Error",
                            tool_args, None) >>, FALSE, FALSE)
        ELSE IF ~TruthyV(cleaned_args)
        THEN Done(<< Output(tool_name, "invalid_tool_call",
                            "Planner produced empty arguments", NoneV, None) >>,
                  FALSE, FALSE)
        ELSE IF tool_name \notin TOOL_MAP
        THEN Done(<< Output(tool_name, None, "Unknown tool", NoneV, None) >>,
                  FALSE, FALSE)
        ELSE IF ~ModelValidate(tool_name, cleaned_args)
        THEN Done(<< Output(tool_name, "validation_error", "Validation Error",
                            tool_args, None) >>, TRUE, FALSE)
        ELSE IF outcome = "raises"
        THEN Done(<< Output(tool_name, "runtime_error", "Runtime Error",
                            tool_args, None) >>, TRUE, TRUE)
        ELSE Done(<< Output(tool_name, "success", None, cleaned_args, outcome) >>,
                  TRUE, TRUE)

\* One iteration of the executor's loop: the outputs it appends (none or
\* one), whether it called model_validate and the tool function, the
\* arguments it handed to model_validate and how the tool function ended.
Dispatch(tool_call, outcome) ==
    LET tool_name == ToolName(tool_call)
        tool_args == ToolArgs(tool_call)
        cleaned_args == CleanedArgs(tool_args)
        Done(outs, v, e) ==
            [outputs |-> outs, validated |-> v, executed |-> e,
             args |-> IF v THEN cleaned_args ELSE NoneV,
             outcome |-> IF e THEN outcome ELSE None]
    IN  IF MissingName(tool_name) THEN Done(<< >>, FALSE, FALSE)
        ELSE IF tool_name \notin TOOL_MAP
        THEN Done(<< Output(tool_name, None, "Unknown tool", NoneV, None) >>,
                  FALSE, FALSE)
        ELSE IF UnwrapRaises(tool_args)
        THEN Done(<< Output(tool_name, "runtime_error", "Runtime Error",
                            tool_args, None) >>, FALSE, FALSE)
        ELSE IF ~TruthyV(cleaned_args)
        THEN Done(<< Output(tool_name, "invalid_tool_call",
                            "Planner produced empty arguments", NoneV, None) >>,
                  FALSE, FALSE)
        ELSE IF ~ModelValidate(tool_name, cleaned_args)
        THEN Done(<< Output(tool_name, "validation_error", "Validation Error",
                            tool_args, None) >>, TRUE, FALSE)
        ELSE IF outcome = "raises"
        THEN Done(<< Output(tool_name, "runtime_error", "Runtime Error",
                            tool_args, None) >>, TRUE, TRUE)
        ELSE Done(<< Output(tool_name, "success", None, cleaned_args, outcome) >>,
                  TRUE, TRUE)

\* The executor's loop over the planned calls, with the outcome of each
\* execution it may start.
DispatchAll(calls, outcomes) ==
    [i \in 1..Len(calls) |-> Dispatch(calls[i], outcomes[i])]

RECURSIVE Outputs(_)
Outputs(log) ==
    IF log = << >> THEN << >> ELSE Head(log).outputs \o Outputs(Tail(log))

ExecutorFrame ==
    UNCHANGED << clarification_question, query, user_file_info,
                 chat_history, retrieved_chunks,
                 search_namespaces, retrieval_filters, tool_calls,
                 final_answer, next_step, loop_step, retrieval_count,
                 ins_for_synthesizer, tool_error_count, router_passes,
                 retrieve_runs, retrieve_pc, pending, all_candidates,
                 returned_chunks >>

\* tool_executor: the patch {"tool_outputs": [...]} goes through the
\* operator.add reducer of the channel.
tool_executor ==
    /\ UNCHANGED << hung, _pc, _index, ensure_at >>
    /\ supersteps' = supersteps + 1
    /\ node = "tool_executor"
    /\ \E outcomes \in [1..Len(tool_calls) -> ToolOutcomes] :
         LET log == DispatchAll(tool_calls, outcomes)
         IN  /\ dispatch_log' = log
             /\ tool_outputs' = Add(tool_outputs, Outputs(log))
    /\ node' = "router"
    /\ last_node' = "tool_executor"
    /\ response' = NoResponse
    /\ raised' = {}
    /\ ExecutorFrame

(***************************************************************************)
(* tool_planner.py                                                         *)
(***************************************************************************)
\* The most tool outputs a turn collects before the planner's language
\* model stops proposing steps.
MaxOutputs == 1

\* json.loads(step.args_json) raised JSONDecodeError.
InvalidJson == [t |-> "invalid", val |-> "", items |-> << >>]

Step(tool_name, parsed_args) == [tool_name |-> tool_name, args |-> parsed_args]

Wrap(key, value) == Dict(<< <<key, value>> >>)

NPVArgs == Dict(<< <<"operation", Str("npv")>>,
                   <<"cash_flows", List(<< Str("num"), Str("num") >>)>>,
                   <<"discount_rate", Str("num")>> >>)

CalcArgs == Dict(<< <<"operation", Str("divide")>>,
                    <<"numbers", List(<< Str("num"), Str("num") >>)>> >>)

\* divide needs two numbers.
BadCalcArgs == Dict(<< <<"operation", Str("divide")>>,
                       <<"numbers", List(<< Str("num") >>)>> >>)

\* The plans the planner's language model returns in a turn.
Plans == { << >>,
           << Step("valuation_tool", Wrap("tool_input", NPVArgs)) >>,
           << Step("", CalcArgs), Step("calculator", Wrap("input", EmptyDict)) >>,
           << Step("web_search", CalcArgs), Step("calculator", InvalidJson) >> }

\* A step is kept when its arguments parse to a non-empty mapping.
ValidStep(step) == IsDict(step.args) /\ TruthyV(step.args)

RECURSIVE ValidSteps(_)
ValidSteps(steps) ==
    IF steps = << >> THEN << >>
    ELSE (IF ValidStep(Head(steps))
          THEN << Call(Head(steps).tool_name, "", Head(steps).args, NoneV) >>
          ELSE << >>) \o ValidSteps(Tail(steps))

PlannerFrame ==
    UNCHANGED << clarification_question, query, user_file_info,
                 chat_history, retrieved_chunks,
                 search_namespaces, retrieval_filters, tool_outputs,
                 final_answer, next_step, loop_step, retrieval_count,
                 ins_for_synthesizer, tool_error_count, router_passes,
                 retrieve_runs, retrieve_pc, pending, all_candidates,
                 returned_chunks >>

\* tool_planner: an empty query, a failing language model, a plan without
\* steps and a plan without valid steps all give an empty list of calls.
tool_planner ==
    /\ UNCHANGED << hung, _pc, _index, ensure_at >>
    /\ supersteps' = supersteps + 1
    /\ node = "tool_planner"
    /\ \E llm_ok \in BOOLEAN, plan \in Plans :
         /\ (plan # << >>) => Len(tool_outputs) < MaxOutputs
         /\ tool_calls' = IF query = "" \/ ~llm_ok THEN << >>
                          ELSE ValidSteps(plan)
    /\ node' = "tool_executor"
    /\ last_node' = "tool_planner"
    /\ response' = NoResponse
    /\ dispatch_log' = << >>
    /\ raised' = {}
    /\ PlannerFrame

(***************************************************************************)
(* synthesizer.py                                                          *)
(***************************************************************************)
EXIT_MSG == "I apologize, but that request is out of my scope."
ERROR_ANSWER == "I'm sorry, I encountered an internal error."
LOOP_STEP_RESET == 6

\* Variant of the synthesizer's patch: the answered query is cleared.
SynthesizerFrame_ClearsQuery ==
    /\ query' = ""
    /\ UNCHANGED << clarification_question, user_file_info,
                    chat_history, search_namespaces,
                    retrieval_filters, tool_calls, next_step,
                    tool_error_count, router_passes, retrieve_runs,
                    retrieve_pc, pending, all_candidates, returned_chunks >>

SynthesizerFrame ==
    UNCHANGED << clarification_question, query, user_file_info,
                 chat_history, search_namespaces,
                 retrieval_filters, tool_calls, next_step, tool_error_count,
                 router_passes, retrieve_runs, retrieve_pc, pending,
                 all_candidates, returned_chunks >>

\* synthesizer: the exit short-circuit, the generated answer with its resets,
\* or the error answer.  tool_outputs goes through operator.add, so the
\* patch "tool_outputs": [] appends nothing.
synthesizer ==
    /\ UNCHANGED << hung, _pc, _index, ensure_at >>
    /\ supersteps' = supersteps + 1
    /\ node = "synthesizer"
    /\ IF ins_for_synthesizer = "EXIT"
       THEN /\ final_answer' = EXIT_MSG
            /\ retrieved_chunks' = << >>
            /\ UNCHANGED << tool_outputs, loop_step, retrieval_count,
                            ins_for_synthesizer >>
       ELSE \E llm_ok \in BOOLEAN :
            IF llm_ok
            THEN /\ final_answer' = "answer"
                 /\ retrieved_chunks' = << >>
                 /\ tool_outputs' = Add(tool_outputs, << >>)
                 /\ loop_step' = LOOP_STEP_RESET
                 /\ retrieval_count' = 0
                 /\ ins_for_synthesizer' = ""
            ELSE /\ final_answer' = ERROR_ANSWER
                 /\ retrieved_chunks' = << >>
                 /\ UNCHANGED << tool_outputs, loop_step, retrieval_count,
                                 ins_for_synthesizer >>
    /\ node' = "END"
    /\ last_node' = "synthesizer"
    /\ response' = NoResponse
    /\ dispatch_log' = << >>
    /\ raised' = {}
    /\ SynthesizerFrame

(***************************************************************************)
(* ingest_user_file.py                                                     *)
(***************************************************************************)
IngestFrame ==
    UNCHANGED << clarification_question, query, user_file_info,
                 retrieved_chunks, retrieval_filters,
                 tool_calls, tool_outputs, final_answer, loop_step,
                 retrieval_count, ins_for_synthesizer, router_passes,
                 retrieve_runs, retrieve_pc, pending, all_candidates,
                 returned_chunks >>

\* ingest_user_file: no path in the file info, a pipeline that succeeds and
\* switches to the user namespace, or a pipeline that fails.
ingest_user_file ==
    /\ UNCHANGED << hung, _pc, _index, ensure_at >>
    /\ supersteps' = supersteps + 1
    /\ node = "ingest_user_file"
    /\ IF user_file_info # "with_path"
       THEN /\ tool_error_count' = 1
            /\ chat_history' = Add(chat_history, << <<"ai", "System Error">> >>)
            /\ UNCHANGED << search_namespaces, next_step >>
       ELSE \E pipeline_ok \in BOOLEAN :
            IF pipeline_ok
            THEN /\ search_namespaces' = << "user" >>
                 /\ chat_history' = Add(chat_history,
                        << <<"system", "User file has been indexed.">> >>)
                 /\ next_step' = "router"
                 /\ UNCHANGED tool_error_count
            ELSE /\ tool_error_count' = 1
                 /\ search_namespaces' = << >>
                 /\ chat_history' = Add(chat_history,
                        << <<"ai", "I encountered an error processing the file">> >>)
                 /\ UNCHANGED next_step
    /\ node' = "router"
    /\ last_node' = "ingest_user_file"
    /\ response' = NoResponse
    /\ dispatch_log' = << >>
    /\ raised' = {}
    /\ IngestFrame

(***************************************************************************)
(* graph.py, app.py                                                        *)
(***************************************************************************)
\* The attached document of the turn: none, file info with a path, or file
\* info without one.
FileInfos == {None, "with_path", "without_path"}

entry_gate(file_info) ==
    IF file_info # None THEN "ingest_user_file" ELSE "router"

\* The initial state app.py hands to the graph: the query, the chat so far
\* and the file info; the counters and the search scope are not set.
Init ==
    /\ user_file_info \in FileInfos
    /\ node = entry_gate(user_file_info)
    /\ last_node = None
    /\ query = "q"
    /\ chat_history = << <<"user", "q">> >>
    /\ retrieved_chunks = << >>
    /\ search_namespaces = << >>
    /\ retrieval_filters = None
    /\ tool_calls = << >>
    /\ tool_outputs = << >>
    /\ final_answer = None
    /\ clarification_question = None
    /\ next_step = None
    /\ loop_step = Unset
    /\ retrieval_count = Unset
    /\ ins_for_synthesizer = None
    /\ tool_error_count = Unset
    /\ response = NoResponse
    /\ router_passes = 0
    /\ retrieve_runs = 0
    /\ supersteps = 0
    /\ retrieve_pc = "idle"
    /\ pending = {}
    /\ all_candidates = << >>
    /\ returned_chunks = {}
    /\ raised = {}
    /\ hung = {}
    /\ _pc = None
    /\ _index = None
    /\ ensure_at = [t \in Turns |-> "start"]
    /\ dispatch_log = << >>

Next ==
    \/ ingest_user_file
    \/ router
    \/ retrieve_submit
    \/ search_done
    \/ retrieve_join
    \/ tool_planner
    \/ tool_executor
    \/ synthesizer

Spec == Init /\ [][Next]_vars

\* Every node invocation returns: a step that can be taken is taken.
FairSpec == Spec /\ WF_vars(Next)

(***************************************************************************)
(* The workflow with failing nodes.  graph.py adds the node functions to   *)
(* the StateGraph as they are and app.py iterates over the stream without  *)
(* a handler, so an exception that a node does not catch itself leaves the *)
(* workflow.                                                               *)
(***************************************************************************)
\* The nodes with a statement in front of their try block that may raise:
\* the directory setup of ingest_user_file, with_structured_output and the
\* prompt formatting of the router, with_structured_output of the planner and
\* the prompt formatting of the synthesizer.
RaisesOutsideTry ==
    \/ node = "ingest_user_file" /\ user_file_info = "with_path"
    \/ node = "router"
          /\ ~CircuitBreaker(NewStepCount(Get(loop_step, LIMITS.max_loops)))
    \/ node = "tool_planner" /\ query # ""
    \/ node = "synthesizer" /\ ins_for_synthesizer # "EXIT"

\* A node raises outside its try block: no patch is applied and the
\* exception ends the stream.
node_raises ==
    /\ RaisesOutsideTry
    /\ UNCHANGED << hung, _pc, _index, ensure_at >>
    /\ UNCHANGED supersteps
    /\ node' = "RAISED"
    /\ last_node' = node
    /\ response' = NoResponse
    /\ dispatch_log' = << >>
    /\ raised' = {}
    /\ UNCHANGED << clarification_question, query, user_file_info,
                    chat_history, retrieved_chunks,
                    search_namespaces, retrieval_filters, tool_calls,
                    tool_outputs, final_answer, next_step, loop_step,
                    retrieval_count, ins_for_synthesizer, tool_error_count,
                    router_passes, retrieve_runs, retrieve_pc, pending,
                    all_candidates, returned_chunks >>

NextRaises == Next \/ node_raises

SpecRaises == Init /\ [][NextRaises]_vars

(***************************************************************************)
(* The retrieval node on its own: one round over the user namespace, whose *)
(* index holds more candidates than a round returns, alone or together     *)
(* with other namespaces.                                                  *)
(***************************************************************************)
RetrieveScopes ==
    { << "user" >>, << "user", "filings" >>,
      << "user", "filings", "transcripts" >> }

InitRetrieve ==
    /\ search_namespaces \in RetrieveScopes
    /\ retrieval_filters \in {None, "ticker=FTNT"}
    /\ node = "retrieve"
    /\ last_node = "router"
    /\ user_file_info = None
    /\ query = "q"
    /\ chat_history = << <<"user", "q">> >>
    /\ retrieved_chunks = << >>
    /\ tool_calls = << >>
    /\ tool_outputs = << >>
    /\ final_answer = None
    /\ clarification_question = None
    /\ next_step = "retrieve"
    /\ loop_step = LIMITS.max_loops - 1
    /\ retrieval_count = 1
    /\ ins_for_synthesizer = None
    /\ tool_error_count = Unset
    /\ response = NoResponse
    /\ router_passes = 1
    /\ retrieve_runs = 0
    /\ supersteps = 1
    /\ retrieve_pc = "idle"
    /\ pending = {}
    /\ all_candidates = << >>
    /\ returned_chunks = {}
    /\ raised = {}
    /\ hung = {}
    /\ _pc = None
    /\ _index = None
    /\ ensure_at = [t \in Turns |-> "start"]
    /\ dispatch_log = << >>

NextRetrieve == retrieve_submit \/ search_done \/ retrieve_join

SpecRetrieve == InitRetrieve /\ [][NextRetrieve]_vars

(***************************************************************************)
(* retriever.py, the process-wide clients.  The application serves each    *)
(* session's turn on a thread of one process, and the module globals _pc   *)
(* and _index are shared by them.  _ensure_clients tests each global and   *)
(* assigns it without a lock, so each test and each assignment is a step   *)
(* of its own; a handle is named by the turn that created it.  After       *)
(* _ensure_clients the turn submits its namespace tasks, which read        *)
(* _index until the round is joined.                                       *)
(***************************************************************************)
\* What a step of _ensure_clients leaves alone: the state of every turn.
ClientsFrame ==
    UNCHANGED << node, last_node, query, user_file_info, chat_history,
                 retrieved_chunks, search_namespaces, retrieval_filters,
                 tool_calls, tool_outputs, final_answer,
                 clarification_question, next_step, loop_step,
                 retrieval_count, ins_for_synthesizer, tool_error_count,
                 response, router_passes, retrieve_runs, supersteps,
                 retrieve_pc, pending, all_candidates, returned_chunks,
                 raised, hung, dispatch_log >>

\* if _pc is None:
ensure_test_pc(t) ==
    /\ ensure_at[t] = "start"
    /\ ensure_at' = [ensure_at EXCEPT ![t] =
                        IF _pc = None THEN "create_pc" ELSE "test_index"]
    /\ UNCHANGED << _pc, _index >>
    /\ ClientsFrame

\* _pc = Pinecone(api_key=PINECONE_API_KEY)
ensure_create_pc(t) ==
    /\ ensure_at[t] = "create_pc"
    /\ _pc' = << "Pinecone", t >>
    /\ ensure_at' = [ensure_at EXCEPT ![t] = "test_index"]
    /\ UNCHANGED _index
    /\ ClientsFrame

\* if _index is None:
ensure_test_index(t) ==
    /\ ensure_at[t] = "test_index"
    /\ ensure_at' = [ensure_at EXCEPT ![t] =
                        IF _index = None THEN "create_index" ELSE "searching"]
    /\ UNCHANGED << _pc, _index >>
    /\ ClientsFrame

\* _index = _pc.Index(PINECONE_INDEX_NAME)
ensure_create_index(t) ==
    /\ ensure_at[t] = "create_index"
    /\ _index' = << "Index", t >>
    /\ ensure_at' = [ensure_at EXCEPT ![t] = "searching"]
    /\ UNCHANGED _pc
    /\ ClientsFrame

\* The turn's namespace tasks have read _index and the round is joined.
tasks_joined(t) ==
    /\ ensure_at[t] = "searching"
    /\ ensure_at' = [ensure_at EXCEPT ![t] = "joined"]
    /\ UNCHANGED << _pc, _index >>
    /\ ClientsFrame

NextClients ==
    \E t \in Turns :
        \/ ensure_test_pc(t)
        \/ ensure_create_pc(t)
        \/ ensure_test_index(t)
        \/ ensure_create_index(t)
        \/ tasks_joined(t)

SpecClients == Init /\ [][NextClients]_vars

(***************************************************************************)
(* The retrieval node with an index that may not answer.  _index.query is  *)
(* called without a timeout and future.result() without one, so a query    *)
(* that never responds leaves its task running for ever.                   *)
(***************************************************************************)
search_hangs ==
    /\ node = "retrieve"
    /\ retrieve_pc = "searching"
    /\ \E ns \in pending \ hung : hung' = hung \cup {ns}
    /\ UNCHANGED << node, last_node, retrieved_chunks, response, retrieve_pc,
                    retrieve_runs, returned_chunks, dispatch_log, pending,
                    all_candidates, raised, supersteps,
                    _pc, _index, ensure_at >>
    /\ RetrieveFrame

NextHang == NextRetrieve \/ search_hangs

\* Everything that can happen does: the tasks that respond complete and the
\* node goes on as soon as it can.
SpecHang == InitRetrieve /\ [][NextHang]_vars /\ WF_vars(NextHang)

(***************************************************************************)
(* ask.py: the clarifier.  The router's RouteChoice has no ask_user value, *)
(* so the node runs only in a workflow that is started at it.              *)
(***************************************************************************)
ERROR_QUESTION == "I'm sorry, I encountered an internal error."

AskFrame ==
    UNCHANGED << query, user_file_info, retrieved_chunks, search_namespaces,
                 retrieval_filters, tool_calls, tool_outputs, final_answer,
                 next_step, loop_step, retrieval_count, ins_for_synthesizer,
                 tool_error_count, router_passes, retrieve_runs, retrieve_pc,
                 pending, all_candidates, returned_chunks >>

\* ask_user: the generated question is put to the user and the question and
\* the answer are appended to the history; when the language model or
\* input() raises, the except clause returns the error question alone.
ask_user ==
    /\ UNCHANGED << hung, _pc, _index, ensure_at >>
    /\ supersteps' = supersteps + 1
    /\ node = "ask_user"
    /\ \E llm_ok \in BOOLEAN, input_ok \in BOOLEAN :
         IF llm_ok /\ input_ok
         THEN /\ chat_history' = Add(chat_history,
                     << << "ai", "question" >>, << "human", "answer" >> >>)
              /\ clarification_question' = "question"
         ELSE /\ clarification_question' = ERROR_QUESTION
              /\ UNCHANGED chat_history
    /\ node' = "router"
    /\ last_node' = "ask_user"
    /\ response' = NoResponse
    /\ dispatch_log' = << >>
    /\ raised' = {}
    /\ AskFrame

\* The workflow at the clarifier, late in a turn that has neither retrieved
\* nor run a tool.
AtClarifier ==
    /\ node = "ask_user"
    /\ last_node = "router"
    /\ user_file_info = None
    /\ query = "q"
    /\ chat_history = << <<"user", "q">> >>
    /\ retrieved_chunks = << >>
    /\ search_namespaces = << >>
    /\ retrieval_filters = None
    /\ tool_calls = << >>
    /\ tool_outputs = << >>
    /\ final_answer = None
    /\ clarification_question = None
    /\ next_step = "ask_user"
    /\ loop_step = 2
    /\ retrieval_count = Unset
    /\ ins_for_synthesizer = None
    /\ tool_error_count = Unset
    /\ response = NoResponse
    /\ router_passes = 4
    /\ retrieve_runs = 0
    /\ supersteps = 10
    /\ retrieve_pc = "idle"
    /\ pending = {}
    /\ all_candidates = << >>
    /\ returned_chunks = {}
    /\ raised = {}
    /\ hung = {}
    /\ _pc = None
    /\ _index = None
    /\ ensure_at = [t \in Turns |-> "start"]
    /\ dispatch_log = << >>

InitClarify == Init \/ AtClarifier

NextClarify == Next \/ ask_user

SpecClarify == InitClarify /\ [][NextClarify]_vars

(***************************************************************************)
(* The executor on its own: tool_executor applied to the lists of planned  *)
(* calls a caller may hand it.                                             *)
(***************************************************************************)
\* The longest list of planned calls handed to the executor.
MaxCalls == 2

ArgShapes ==
    { NoneV, EmptyDict, Wrap("tool_input", EmptyDict), NPVArgs, CalcArgs,
      BadCalcArgs, Wrap("tool_input", NPVArgs),
      Wrap("arguments", Wrap("tool_input", NPVArgs)),
      Wrap("payload", NPVArgs), Wrap("input", Str("num")),
      Dict(<< <<"tool_input", NPVArgs>>, <<"note", Str("num")>> >>),
      List(<< Str("num") >>) }

ToolNames == {"", "web_search", "calculator", "valuation_tool"}

PlannedCalls ==
    { Call(n, "", a, NoneV) : n \in ToolNames, a \in ArgShapes }
    \cup { Call("", "calculator", CalcArgs, NoneV),
           Call("calculator", "", NoneV, CalcArgs),
           Call("calculator", "", EmptyDict, Wrap("input", EmptyDict)) }

CallLists == UNION { [1..n -> PlannedCalls] : n \in 0..MaxCalls }

InitDispatch ==
    /\ tool_calls \in CallLists
    /\ node = "tool_executor"
    /\ last_node = "tool_planner"
    /\ user_file_info = None
    /\ query = "q"
    /\ chat_history = << <<"user", "q">> >>
    /\ retrieved_chunks = << >>
    /\ search_namespaces = << >>
    /\ retrieval_filters = None
    /\ tool_outputs = << >>
    /\ final_answer = None
    /\ clarification_question = None
    /\ next_step = "plan_tools"
    /\ loop_step = LIMITS.max_loops - 1
    /\ retrieval_count = Unset
    /\ ins_for_synthesizer = None
    /\ tool_error_count = Unset
    /\ response = NoResponse
    /\ router_passes = 1
    /\ retrieve_runs = 0
    /\ supersteps = 2
    /\ retrieve_pc = "idle"
    /\ pending = {}
    /\ all_candidates = << >>
    /\ returned_chunks = {}
    /\ raised = {}
    /\ hung = {}
    /\ _pc = None
    /\ _index = None
    /\ ensure_at = [t \in Turns |-> "start"]
    /\ dispatch_log = << >>

NextDispatch == tool_executor

SpecDispatch == InitDispatch /\ [][NextDispatch]_vars

(***************************************************************************)
(* Properties                                                              *)
(***************************************************************************)
\* The loop budget a router pass reads: max_loops while the key is not set.
LoopBudget == Get(loop_step, LIMITS.max_loops)

\* The retrieval counter a router pass reads.
RetrievalBudget == Get(retrieval_count, 0)

\* The state right after a router pass: the router ran last and the node it
\* chose has not started.
AfterRouter == last_node = "router" /\ retrieve_pc = "idle"

\* The router pass took the circuit breaker branch (no classifier call).
BreakerFired == AfterRouter /\ response = NoResponse

\* C1, as stated: in every router pass, whichever branch it takes, the loop
\* budget after the pass is strictly smaller than before it.
C1_EveryPassDecrements ==
    [][node = "router" => LoopBudget' < LoopBudget]_vars

\* C1, amended: every router pass other than the conversational exit leaves
\* the loop budget strictly smaller than it was; the conversational exit
\* (next_step = end) leaves loop_step as it was.
C1_PassDecrementsUnlessConversational ==
    [][node = "router" =>
          IF next_step' = "end"
          THEN loop_step' = loop_step
          ELSE LoopBudget' < LoopBudget]_vars

\* C1 witness: a conversational exit taken after two decrementing passes.
C1_Witness ==
    /\ AfterRouter /\ next_step = "end"
    /\ response.next_step = "conversational"
    /\ router_passes = 3 /\ loop_step = 4

\* C2, as stated: after a router pass the decision is synthesize exactly when
\* the loop budget has reached 0.
C2_SynthesizeIffBudgetZero ==
    AfterRouter => (next_step = "synthesize" <=> loop_step = 0)

\* C2, amended: a pass that brings the loop budget to 0 always decides
\* synthesize, whatever the classifier would return; a pass that leaves the
\* budget above 0 decides synthesize only when the classifier chose it, when
\* the classifier asked for a retrieval at the ceiling, or when the
\* classification failed.
C2_BudgetZeroForcesSynthesize ==
    AfterRouter =>
        /\ loop_step = 0 => next_step = "synthesize" /\ response = NoResponse
        /\ (next_step = "synthesize" /\ loop_step # 0) =>
              \/ response.kind = "error"
              \/ response.next_step = "synthesize"
              \/ /\ response.next_step = "retrieve"
                 /\ RetrievalBudget >= LIMITS.max_retrievals

\* C2 witness: the breaker pass, taken after retrievals and tool rounds.
C2_Witness ==
    /\ AfterRouter /\ loop_step = 0 /\ next_step = "synthesize"
    /\ retrieve_runs > 0 /\ tool_outputs # << >>

\* C3, as stated: with the budget starting at 6, the 7th router pass is the
\* one the budget forces to synthesize, and no earlier pass is forced.
C3_SeventhPassForced ==
    BreakerFired => router_passes = 7

\* C3, amended: with the budget starting at 6 and five passes that each
\* decide retrieve or plan_tools, the 6th router pass is the one the budget
\* forces: it decides synthesize and sets loop_step to 0, and no earlier pass
\* is forced by the budget.
C3_SixthPassForced ==
    AfterRouter =>
        /\ BreakerFired <=> router_passes = 6
        /\ router_passes = 6 => next_step = "synthesize" /\ loop_step = 0
        /\ router_passes <= 6

\* C3 witness: the forced 6th pass.
C3_Witness ==
    BreakerFired /\ router_passes = 6 /\ node = "synthesizer"

\* C4: the retrieval node runs at most max_retrievals times in a turn, and a
\* router pass in which the classifier asks for a retrieval while the counter
\* is at the ceiling decides synthesize and does not lead to a retrieval.
C4_RetrievalCeiling ==
    /\ [](retrieve_runs <= LIMITS.max_retrievals)
    /\ [][(/\ node = "router"
           /\ response'.kind = "ok"
           /\ response'.next_step = "retrieve"
           /\ RetrievalBudget >= LIMITS.max_retrievals)
          => (/\ next_step' = "synthesize"
              /\ node' = "synthesizer"
              /\ retrieve_runs' = retrieve_runs
              /\ retrieval_count' = retrieval_count)]_vars

\* C4 witness: a fourth retrieval request, rewritten to synthesize.
C4_Witness ==
    /\ AfterRouter /\ response.next_step = "retrieve"
    /\ next_step = "synthesize" /\ retrieve_runs = LIMITS.max_retrievals

\* C5: when every node invocation returns, the turn reaches the terminal
\* state, after at most max_loops router passes.
C5_TurnTerminates ==
    /\ <>(node = "END")
    /\ [](router_passes <= LIMITS.max_loops)

\* C5 witness: a turn that ends after using all max_loops router passes.
C5_Witness ==
    node = "END" /\ router_passes = LIMITS.max_loops /\ final_answer # None

ChunkIds(chunks) == {chunks[i].id : i \in 1..Len(chunks)}

\* C6, as stated: before synthesis, retrieved_chunks holds, per id, the most
\* recently produced chunk of every candidate the rounds have returned.
C6_ChunksAreUnionOfRounds ==
    last_node # "synthesizer" => Range(retrieved_chunks) = returned_chunks

\* C7, as stated: the set of ids in retrieved_chunks never shrinks in a step
\* other than the synthesizer's.
C7_ChunksNeverShrink ==
    [][node # "synthesizer" =>
          ChunkIds(retrieved_chunks) \subseteq ChunkIds(retrieved_chunks')]_vars

\* C8, as stated: one run of the executor records exactly one result for
\* each planned call.
C8_OneResultPerCall ==
    last_node = "tool_executor" =>
        /\ Len(dispatch_log) = Len(tool_calls)
        /\ \A i \in 1..Len(dispatch_log) : Len(dispatch_log[i].outputs) = 1

EmptyOrMissingArgs(tool_call) ==
    \/ ~TruthyV(tool_call.args) /\ ~TruthyV(tool_call.arguments)
    \/ \E k \in WrapperKeys :
          Or(tool_call.args, tool_call.arguments) = Wrap(k, EmptyDict)

\* C10: a planned call to a registered tool whose arguments are empty or
\* missing, or wrap an empty mapping under a whitelisted key, is recorded as
\* the empty-arguments failure, and neither model_validate nor the tool
\* function is called for it.
C10_EmptyArgumentsRejected ==
    last_node = "tool_executor" =>
        \A i \in 1..Len(tool_calls) :
            (ToolName(tool_calls[i]) \in TOOL_MAP
               /\ EmptyOrMissingArgs(tool_calls[i])) =>
                    /\ Len(dispatch_log[i].outputs) = 1
                    /\ dispatch_log[i].outputs[1].status = "invalid_tool_call"
                    /\ dispatch_log[i].outputs[1].tool_name =
                           ToolName(tool_calls[i])
                    /\ dispatch_log[i].outputs[1] \in Range(tool_outputs)
                    /\ ~dispatch_log[i].validated
                    /\ ~dispatch_log[i].executed

\* C10 witness: the executor has processed a registered tool's call with
\* missing arguments and one with a wrapper key around an empty mapping.
C10_Witness ==
    /\ last_node = "tool_executor"
    /\ \E i, j \in 1..Len(tool_calls) :
          /\ tool_calls[i] = Call("calculator", "", NoneV, NoneV)
          /\ tool_calls[j] = Call("valuation_tool", "",
                                  Wrap("tool_input", EmptyDict), NoneV)
          /\ dispatch_log[j].outputs # << >>

\* The raw arguments are a mapping with exactly one key, the key is on the
\* whitelist and its value is a mapping.
SingleWrapper(raw) ==
    /\ raw.t = "dict" /\ Len(raw.items) = 1
    /\ raw.items[1][1] \in {"tool_input", "input", "arguments"}
    /\ raw.items[1][2].t = "dict"

\* The arguments the canonicalization is to hand on: the inner mapping of a
\* single whitelisted wrapper, the raw arguments otherwise.
Canonical(raw) == IF SingleWrapper(raw) THEN raw.items[1][2] ELSE raw

\* C11: for a planned call to a registered tool whose raw arguments are a
\* mapping, the arguments handed to model_validate are the inner mapping when
\* the raw arguments are a single whitelisted wrapper key around a mapping,
\* and the raw arguments unchanged in every other case (several keys, another
\* key, a value that is no mapping); a wrapper inside a wrapper is unwrapped
\* once only.  Every such call with non-empty canonical arguments reaches
\* model_validate.
C11_OneLevelUnwrapped ==
    last_node = "tool_executor" =>
        \A i \in 1..Len(tool_calls) :
            LET raw == ToolArgs(tool_calls[i])
            IN  (ToolName(tool_calls[i]) \in TOOL_MAP /\ raw.t = "dict"
                   /\ Canonical(raw) # EmptyDict) =>
                    /\ dispatch_log[i].validated
                    /\ dispatch_log[i].args = Canonical(raw)
                    /\ dispatch_log[i].outputs[1].status = "success" =>
                           dispatch_log[i].outputs[1].input = Canonical(raw)

\* C11 witness: the executor has validated the wrapped NPV arguments of
\* scenario D and run the tool, and has handed a wrapper inside a wrapper to
\* validation with its inner wrapper in place.
C11_Witness ==
    /\ last_node = "tool_executor"
    /\ \E i, j \in 1..Len(tool_calls) :
          /\ tool_calls[i] = Call("valuation_tool", "",
                                  Wrap("tool_input", NPVArgs), NoneV)
          /\ dispatch_log[i].args = NPVArgs
          /\ dispatch_log[i].outputs[1].status = "success"
          /\ tool_calls[j] = Call("valuation_tool", "",
                 Wrap("arguments", Wrap("tool_input", NPVArgs)), NoneV)
          /\ dispatch_log[j].args = Wrap("tool_input", NPVArgs)
          /\ dispatch_log[j].outputs[1].status = "validation_error"

\* The planned call names a registered tool and carries non-empty arguments
\* that the executor can canonicalize.
RegisteredWithArgs(tool_call) ==
    /\ ToolName(tool_call) \in TOOL_MAP
    /\ ToolArgs(tool_call).t = "dict"
    /\ Canonical(ToolArgs(tool_call)) # EmptyDict

\* C12: for every planned call to a registered tool with non-empty arguments
\* exactly one result is recorded: the validation-error failure, with the
\* tool function not called, when the contract rejects the arguments; the
\* runtime-error failure when the contract accepts them and the tool function
\* raises; success, carrying what the function returned, when it returns.
\* No call of a registered tool is recorded as a success without a passed
\* validation and a returned execution.
C12_ValidationThenExecution ==
    last_node = "tool_executor" =>
        \A i \in 1..Len(tool_calls) :
            LET call == tool_calls[i]
                entry == dispatch_log[i]
                accepted == ModelValidate(ToolName(call), entry.args)
            IN  /\ RegisteredWithArgs(call) =>
                    /\ Len(entry.outputs) = 1
                    /\ entry.outputs[1] \in Range(tool_outputs)
                    /\ entry.validated
                    /\ ~accepted =>
                          /\ entry.outputs[1].status = "validation_error"
                          /\ ~entry.executed
                    /\ accepted =>
                          /\ entry.executed
                          /\ entry.outcome = "raises" =>
                                entry.outputs[1].status = "runtime_error"
                          /\ entry.outcome # "raises" =>
                                /\ entry.outputs[1].status = "success"
                                /\ entry.outputs[1].result = entry.outcome
                /\ \A k \in 1..Len(entry.outputs) :
                      entry.outputs[k].status = "success" =>
                          /\ entry.validated /\ accepted
                          /\ entry.executed /\ entry.outcome # "raises"

\* C12 witness: one run of the executor with a call the contract rejects
\* (divide with one number) and a valid call whose tool function raises.
C12_Witness ==
    /\ last_node = "tool_executor"
    /\ \E i, j \in 1..Len(tool_calls) :
          /\ tool_calls[i] = Call("calculator", "", BadCalcArgs, NoneV)
          /\ dispatch_log[i].outputs[1].status = "validation_error"
          /\ tool_calls[j] = Call("calculator", "", CalcArgs, NoneV)
          /\ dispatch_log[j].outcome = "raises"
          /\ dispatch_log[j].outputs[1].status = "runtime_error"

\* The step that ends a retrieval round after the join of its tasks.
RoundEnds == node = "retrieve" /\ retrieve_pc = "searching" /\ retrieve_pc' = "idle"

\* C13: in a retrieval round, a namespace task that raises adds no candidate
\* and leaves the round and the other tasks running; the round ends only
\* when every task is done, with no candidate of a failed namespace and every
\* candidate of each other namespace collected, and, unless the reranker
\* fails, it returns the merge of the reranked candidates, which is not empty
\* when a surviving namespace returned a candidate.
C13_NamespaceFailureIsolated ==
    /\ [][raised' \ raised \notin { {}, {"clients"}, {"reranker"} } =>
             /\ all_candidates' = all_candidates
             /\ pending' \subseteq pending
             /\ node' = "retrieve" /\ retrieve_pc' = "searching"
             /\ retrieved_chunks' = retrieved_chunks]_vars
    /\ [][RoundEnds =>
             LET survivors == TargetNamespaces(search_namespaces) \ raised
             IN  /\ pending = {}
                 /\ \A i \in 1..Len(all_candidates) :
                       all_candidates[i].origin_namespace \in survivors
                 /\ \A ns \in survivors :
                       Range(SearchSingleNamespace(ns, retrieval_filters, TRUE))
                           \subseteq Range(all_candidates)
                 /\ node' = "router"
                 /\ "reranker" \notin raised' =>
                       /\ retrieved_chunks' =
                             IF all_candidates = << >> THEN << >>
                             ELSE MergeChunks(retrieved_chunks,
                                      NewChunks(RerankCandidates(all_candidates,
                                                                 top_k)))
                       /\ all_candidates # << >> => retrieved_chunks' # << >>]_vars

\* C13 witness: the first round of a turn over all namespaces has ended; the
\* filings task raised and the chunks come from the other namespaces.
C13_Witness ==
    /\ last_node = "retrieve" /\ node = "router" /\ retrieve_runs = 1
    /\ Cardinality(TargetNamespaces(search_namespaces)) >= 3
    /\ raised = {"filings"}
    /\ retrieved_chunks # << >>
    /\ \A i \in 1..Len(retrieved_chunks) : retrieved_chunks[i].source # "filings"

\* The router pass that is ending got the conversational decision from the
\* classifier.
ConversationalPass ==
    /\ node = "router"
    /\ response'.kind = "ok" /\ response'.next_step = "conversational"

\* C14: a router pass in which the classifier returns the conversational
\* decision ends the turn at once: the workflow goes from the router to END
\* with final_answer built from the explanation (the explanation itself, or
\* the fixed refusal when it mentions "out of scope"), retrieved_chunks,
\* tool_calls and tool_outputs stay as they are, and no node runs once the
\* workflow is at END.
C14_ConversationalEndsTurn ==
    /\ [][ConversationalPass =>
             /\ next_step' = "end" /\ node' = "END"
             /\ final_answer' =
                   IF response'.explanation = "This is out of scope."
                   THEN OUT_OF_SCOPE_MSG ELSE response'.explanation
             /\ UNCHANGED << retrieved_chunks, tool_outputs, tool_calls,
                             retrieve_runs >>]_vars
    /\ [][node # "END"]_vars

\* C14 witness: a turn that retrieved and ran a tool has ended at the router
\* on a conversational decision, with chunks and outputs still in the state.
C14_Witness ==
    /\ node = "END" /\ last_node = "router"
    /\ response.next_step = "conversational"
    /\ final_answer = "Hello! How can I help?"
    /\ retrieved_chunks # << >> /\ tool_outputs # << >>

\* The edges of the workflow.
Edges ==
    { << "ingest_user_file", "router" >>,
      << "router", "retrieve" >>, << "router", "tool_planner" >>,
      << "router", "ask_user" >>, << "router", "synthesizer" >>,
      << "router", "END" >>,
      << "retrieve", "router" >>,
      << "tool_planner", "tool_executor" >>, << "tool_executor", "router" >>,
      << "ask_user", "router" >>,
      << "synthesizer", "END" >> }

\* The node a value of next_step names.
NamedBy(step) ==
    CASE step = "retrieve" -> "retrieve"
      [] step = "plan_tools" -> "tool_planner"
      [] step = "ask_user" -> "ask_user"
      [] step = "synthesize" -> "synthesizer"
      [] step = "end" -> "END"
      [] OTHER -> "no node"

\* C16: the turn starts at ingest_user_file when a document is attached and
\* at the router otherwise; every later move from one node to another is an
\* edge of the workflow, and the move that leaves the router goes to the node
\* that next_step names.
C16_FixedEdges ==
    /\ [](last_node = None =>
             node = IF user_file_info # None THEN "ingest_user_file"
                    ELSE "router")
    /\ [][node' # node =>
             /\ << node, node' >> \in Edges
             /\ last_node' = node
             /\ node = "router" => node' = NamedBy(next_step')]_vars

\* C16 witness: a turn with an attached document has ended through the
\* synthesizer after a retrieval round and a tool round.
C16_Witness ==
    /\ node = "END" /\ last_node = "synthesizer"
    /\ user_file_info = "with_path"
    /\ retrieve_runs > 0 /\ tool_outputs # << >>

\* C17: a router pass whose classification call fails (the breaker has not
\* fired) decides synthesize, takes one off the loop budget, changes no other
\* field of the state, and the workflow goes on to the synthesizer.
C17_ClassifierErrorFailsOpen ==
    [][(node = "router" /\ response'.kind = "error") =>
          /\ next_step' = "synthesize"
          /\ loop_step' = LoopBudget - 1
          /\ node' = "synthesizer"
          /\ UNCHANGED << clarification_question, query, user_file_info,
                          chat_history,
                          retrieved_chunks, search_namespaces,
                          retrieval_filters, tool_calls, tool_outputs,
                          final_answer, retrieval_count, ins_for_synthesizer,
                          tool_error_count >>]_vars

\* C17 witness: the classification failed in the third pass of a turn that
\* holds retrieved chunks.
C17_Witness ==
    /\ AfterRouter /\ response.kind = "error"
    /\ next_step = "synthesize" /\ node = "synthesizer"
    /\ router_passes = 3 /\ loop_step = 3
    /\ retrieved_chunks # << >>

\* C18: a router pass that finds the decremented loop budget at 0 or below
\* does not call the classifier: it decides synthesize and sets loop_step to
\* 0; every other pass calls the classifier.
C18_BreakerBeforeClassifier ==
    [][node = "router" =>
          IF LoopBudget - 1 <= 0
          THEN /\ response' = NoResponse
               /\ next_step' = "synthesize" /\ loop_step' = 0
               /\ node' = "synthesizer"
          ELSE response'.kind \in {"ok", "error"}]_vars

\* C18 witness: the breaker pass of a turn that used up its three retrievals.
C18_Witness ==
    /\ AfterRouter /\ response = NoResponse
    /\ loop_step = 0 /\ next_step = "synthesize"
    /\ retrieve_runs = LIMITS.max_retrievals

\* C15, as stated: an exception raised by a node never leaves the workflow.
C15_NoExceptionLeavesWorkflow == node # "RAISED"

\* The classifier's retrieve decision has just been stored by the router.
RetrieveDecided ==
    AfterRouter /\ response.kind = "ok" /\ next_step = "retrieve"

\* C19, as stated: after a router pass that decides retrieve, the state holds
\* the namespaces of the decision and its filters; with a decision that
\* carries no filters the state holds none.
C19_ScopeIsTheDecisions ==
    RetrieveDecided =>
        /\ search_namespaces = response.search_namespaces
        /\ IF Truthy(response.search_filters)
           THEN retrieval_filters = response.search_filters
           ELSE ~Truthy(retrieval_filters)

\* The turn's document has been ingested and indexed.
Ingested ==
    \E i \in 1..Len(chat_history) :
        chat_history[i] = << "system", "User file has been indexed." >>

\* C20, as stated: once the ingest has succeeded, every retrieval round of
\* the turn searches the user namespace.
C20_UserNamespaceSearched ==
    (Ingested /\ retrieve_pc = "searching") =>
        "user" \in TargetNamespaces(search_namespaces)

\* a is a prefix of b.
IsPrefix(a, b) == Len(a) <= Len(b) /\ SubSeq(b, 1, Len(a)) = a

\* C21, as stated: in every step other than the synthesizer's tool_outputs
\* keeps what it held as a prefix, and right after the synthesizer has
\* produced the final answer tool_outputs is empty.
C21_AppendOnlyClearedOnSynthesis ==
    /\ [][node # "synthesizer" => IsPrefix(tool_outputs, tool_outputs')]_vars
    /\ [](last_node = "synthesizer" => tool_outputs = << >>)

\* C22, as stated: every output recorded with status success holds the result
\* of a tool run that succeeded, never the error a tool reported.
C22_SuccessMeansSucceeded ==
    \A i \in 1..Len(tool_outputs) :
        tool_outputs[i].status = "success" => tool_outputs[i].result = "result"

\* C23: in every step of a turn, by any node, the history after the step has
\* the history before the step as a prefix.
C23_HistoryAppendOnly ==
    [][IsPrefix(chat_history, chat_history')]_vars

\* C23 witness: the clarifier has appended its question and the answer to
\* the history of the turn.
C23_Witness ==
    /\ last_node = "ask_user" /\ node = "router"
    /\ chat_history = << << "user", "q" >>, << "ai", "question" >>,
                         << "human", "answer" >> >>

AllCollected ==
    \A ns \in TargetNamespaces(search_namespaces) \ raised :
        Range(SearchSingleNamespace(ns, retrieval_filters, TRUE))
            \subseteq Range(all_candidates)

\* C25: while namespace tasks of a round are running nothing is reranked or
\* merged and the node does not return; the round ends only when no task is
\* pending and every task's candidates have been collected, and outside a
\* round no task is running.
C25_JoinBarrier ==
    /\ [][(retrieve_pc = "searching" /\ pending # {}) =>
             /\ retrieve_pc' = "searching" /\ node' = "retrieve"
             /\ retrieved_chunks' = retrieved_chunks]_vars
    /\ [][RoundEnds => pending = {} /\ AllCollected]_vars
    /\ [](retrieve_pc = "idle" => pending = {})

\* C25 witness: a round over the four namespaces has ended with no failure
\* and chunks of the three namespaces that hold candidates.
C25_Witness ==
    /\ last_node = "retrieve" /\ node = "router" /\ retrieve_pc = "idle"
    /\ Cardinality(TargetNamespaces(search_namespaces)) = 4
    /\ raised = {}
    /\ {retrieved_chunks[i].source : i \in 1..Len(retrieved_chunks)} =
           {"filings", "transcripts", "textbook"}

\* The candidates of the surviving namespaces of a round, taken in the order
\* of the given list of namespaces.
RECURSIVE InListOrder(_, _, _)
InListOrder(namespaces, targets, filters) ==
    IF namespaces = << >> THEN << >>
    ELSE (IF Head(namespaces) \in targets
          THEN SearchSingleNamespace(Head(namespaces), filters, TRUE)
          ELSE << >>) \o InListOrder(Tail(namespaces), targets, filters)

\* The chunks a round selects from a list of candidates.
Selected(candidates) == Range(NewChunks(RerankCandidates(candidates, top_k)))

\* C26, as stated: when the tasks of a round are done, the chunks selected
\* from the candidates in their completion order are those selected from the
\* same per-namespace results taken in one fixed order.
C26_CompletionOrderIrrelevant ==
    (node = "retrieve" /\ retrieve_pc = "searching" /\ pending = {}) =>
        Selected(all_candidates) =
            Selected(InListOrder(ALL_NAMESPACES \o << "user" >>,
                                 TargetNamespaces(search_namespaces) \ raised,
                                 retrieval_filters))

\* The candidate at position j is the one its id keeps after deduplication.
LastOfId(candidates, j) ==
    \A n \in (j + 1)..Len(candidates) : candidates[n].id # candidates[j].id

\* C27: the chunks a first round returns carry a text, have pairwise
\* different ids, come in non-increasing order of their rerank score, are at
\* most top_k, each is a candidate of the round with its rerank score, and no
\* candidate left out has a higher score than a chunk that was kept.
C27_TopKSlice ==
    [][(RoundEnds /\ retrieved_chunks = << >> /\ "reranker" \notin raised') =>
          LET slice == retrieved_chunks'
              n == Len(slice)
          IN  /\ n <= 8
              /\ \A i \in 1..n : slice[i].text # ""
              /\ \A i, j \in 1..n : slice[i].id = slice[j].id => i = j
              /\ \A i \in 1..(n - 1) : slice[i].score >= slice[i + 1].score
              /\ \A i \in 1..n :
                    \E j \in 1..Len(all_candidates) :
                        /\ LastOfId(all_candidates, j)
                        /\ all_candidates[j].id = slice[i].id
                        /\ all_candidates[j].text = slice[i].text
                        /\ all_candidates[j].origin_namespace = slice[i].source
                        /\ slice[i].score = RerankScore(slice[i].text)
              /\ \A j \in 1..Len(all_candidates) :
                    LastOfId(all_candidates, j) =>
                        \/ \E i \in 1..n : slice[i].id = all_candidates[j].id
                        \/ /\ n = 8
                           /\ \A i \in 1..n :
                                 slice[i].score >=
                                     RerankScore(all_candidates[j].text)]_vars

\* C27 witness: a round over the user namespace alone has returned top_k
\* chunks out of more candidates with a text.
C27_Witness ==
    /\ last_node = "retrieve" /\ node = "router"
    /\ search_namespaces = << "user" >> /\ raised = {}
    /\ Len(retrieved_chunks) = top_k
    /\ retrieved_chunks[top_k].score < retrieved_chunks[1].score

\* C28: a round whose namespace list is empty submits one task for each of
\* the four known namespaces, a round with a list one task for each distinct
\* namespace of the list; a round that collects no candidate returns the
\* empty list and hands control back to the router.
C28_DefaultScopeAndEmptyRound ==
    /\ [][(node = "retrieve" /\ retrieve_pc = "idle"
             /\ retrieve_pc' = "searching") =>
             pending' = IF search_namespaces = << >>
                        THEN {"filings", "transcripts", "textbook", "glossary"}
                        ELSE {search_namespaces[i] :
                                 i \in 1..Len(search_namespaces)}]_vars
    /\ [][(RoundEnds /\ all_candidates = << >>) =>
             /\ retrieved_chunks' = << >>
             /\ node' = "router" /\ last_node' = "retrieve"
             /\ UNCHANGED << final_answer, next_step, loop_step >>]_vars

\* C28 witness: a round without a namespace list has searched the four
\* namespaces, every task has failed and control is back at the router.
C28_Witness ==
    /\ last_node = "retrieve" /\ node = "router" /\ retrieve_pc = "idle"
    /\ search_namespaces = << >>
    /\ raised = {"filings", "transcripts", "textbook", "glossary"}
    /\ retrieved_chunks = << >>

\* C29: in a router pass with loop budget remaining and the retrieval counter
\* at or above the ceiling, a classifier decision other than retrieve is the
\* decision of the pass (conversational being the "end" step) and the
\* retrieval counter is left as it was.
C29_CeilingBlocksSearchOnly ==
    [][(/\ node = "router"
        /\ ~CircuitBreaker(NewStepCount(LoopBudget))
        /\ RetrievalBudget >= LIMITS.max_retrievals
        /\ response'.kind = "ok"
        /\ response'.next_step \in {"plan_tools", "synthesize",
                                    "conversational"}) =>
          /\ next_step' = IF response'.next_step = "conversational"
                          THEN "end" ELSE response'.next_step
          /\ node' = RouterEdge(next_step')
          /\ UNCHANGED retrieval_count]_vars

\* C29 witness: with the counter at the ceiling and budget left the
\* classifier chose plan_tools and the pass handed over to the planner.
C29_Witness ==
    /\ AfterRouter /\ node = "tool_planner"
    /\ retrieval_count = LIMITS.max_retrievals
    /\ response.kind = "ok" /\ response.next_step = "plan_tools"
    /\ next_step = "plan_tools"

\* A retrieve decision whose retrieval has not run yet.
DecisionPending == node = "retrieve" /\ retrieve_pc = "idle"

\* C30: until a synthesis resets it, the retrieval counter is the number of
\* retrieval executions plus the pending retrieve decision; it changes only
\* in router passes that decide retrieve, by one, and such a pass hands over
\* to the retrieval node, whose next step is one execution.
C30_CounterCountsRetrievals ==
    /\ [](~(last_node = "synthesizer") =>
            RetrievalBudget =
                retrieve_runs + (IF DecisionPending THEN 1 ELSE 0))
    /\ [][node # "synthesizer" =>
            IF node = "router" /\ next_step' = "retrieve"
            THEN /\ RetrievalBudget' = RetrievalBudget + 1
                 /\ node' = "retrieve" /\ retrieve_pc' = "idle"
            ELSE RetrievalBudget' = RetrievalBudget]_vars
    /\ [][DecisionPending =>
            /\ retrieve_runs' = retrieve_runs + 1
            /\ ~DecisionPending']_vars

\* C30 witness: three retrievals have run, the counter is three and the
\* router has been passed again.
C30_Witness ==
    /\ AfterRouter /\ retrieve_runs = 3 /\ retrieval_count = 3
    /\ next_step = "synthesize" /\ response.kind = "ok"
    /\ response.next_step = "retrieve"

\* The values a router pass can write to next_step: the circuit breaker's
\* and the except clause's, and the classifier's decisions after the soft
\* limit, conversational being written as "end".
PassDecisions ==
    {"synthesize"}
        \cup {FailOpen(n).next_step : n \in 0..LIMITS.max_loops}
        \cup {IF SoftLimit(r.next_step, c) = "conversational" THEN "end"
              ELSE SoftLimit(r.next_step, c) :
                 r \in RouteChoice, c \in 0..LIMITS.max_retrievals}

\* C32, as stated: from a state that is not at the clarifier, some router
\* pass writes the step whose edge leads to the clarifier, so that the
\* clarifier node runs.
C32_ClarifierReachable ==
    node # "ask_user" =>
        \E step \in PassDecisions : RouterEdge(step) = "ask_user"

\* C35: whenever the turn is at the terminal state final_answer is set, and
\* the turn got there from the router's conversational exit or from the
\* synthesizer.
C35_TerminalHasFinalAnswer ==
    node = "END" =>
        /\ final_answer # None
        /\ \/ last_node = "router" /\ next_step = "end"
           \/ last_node = "synthesizer"

\* C35 witness: the turn has ended through the synthesizer's error branch
\* after tools ran.
C35_Witness ==
    /\ node = "END" /\ last_node = "synthesizer"
    /\ final_answer = ERROR_ANSWER /\ tool_outputs # << >>

\* C36: no step of any node changes query, and query is the query the turn
\* started with.
C36_QueryNeverMutated ==
    /\ [][query' = query]_vars
    /\ [](query = "q")

\* C36 witness: a turn in which the clarifier, the router, the retrieval
\* node and the synthesizer have run has ended with the query it had.
C36_Witness ==
    /\ node = "END" /\ last_node = "synthesizer" /\ query = "q"
    /\ Len(chat_history) = 3 /\ retrieve_runs >= 1

\* C31: a turn never runs more than 18 nodes, so the number of node
\* executions stays below the engine's recursion limit, and the router's
\* circuit breaker has forced the synthesis by then.
C31_StepCeilingNeverReached ==
    /\ supersteps <= 18
    /\ supersteps < recursion_limit
    /\ (supersteps >= 17 =>
           /\ node \in {"synthesizer", "END"}
           /\ router_passes = LIMITS.max_loops)

\* C31 witness: a turn with an ingest and a planner and executor run on each
\* of its five free passes has ended after 18 node executions.
C31_Witness ==
    /\ node = "END" /\ last_node = "synthesizer" /\ supersteps = 18
    /\ user_file_info # None /\ router_passes = LIMITS.max_loops

\* C34, as stated: when the query of a namespace never responds, the round
\* still ends and control returns to the router.
C34_HungSearchTimesOut ==
    (hung # {}) ~> (node = "router" /\ last_node = "retrieve")

\* C33, as stated: with several turns running at the same time each client
\* handle, once initialized, is never initialized again, and no handle is
\* written while the namespace tasks of some turn are reading it.
C33_ClientsInitializedOnce ==
    /\ [][_pc # None => _pc' = _pc]_vars
    /\ [][_index # None => _index' = _index]_vars
    /\ [][(\E t \in Turns : ensure_at[t] = "searching") =>
             _index' = _index]_vars

====
